---- MODULE Spec2Model ----
(***************************************************************************)
(* State-machine model of fichier-doublon.py: the File record, the         *)
(* traversal, the duplicate grouper (find_duplicates), the cross-set       *)
(* comparator (find_duplicates_in_rep2), the confirmed deletion and the    *)
(* reconciler (rapatriate_files), over a small modelled filesystem.        *)
(***************************************************************************)
EXTENDS Integers, Sequences, FiniteSets, TLC

VARIABLES
    mode,           \* the action flag main() acts on
    directory,      \* args.directory ("" when the argument is missing)
    rep2,           \* args.rep2 ("" when the argument is missing)
    disk,           \* the filesystem: path -> entry
    disk0,          \* the filesystem as it was when the program started
    pc,             \* position of the program
    file_list,      \* find_duplicates: its argument
    dup_groups,     \* find_duplicates: its return value (list of groups)
    rep1_files,     \* list of File objects of the reference tree
    rep2_files,     \* list of File objects of the candidate tree
    duplicates,     \* find_duplicates_in_rep2: its return value
    confirmation,   \* the operator's raw answer to input()
    rep1_by_name,   \* rapatriate_files: the dict name -> File of rep1
    i,              \* index of the next element of the running for loop
    log,            \* one entry per message printed by a per-file step
    written         \* one entry per successful shutil.copy2

vars == <<mode, directory, rep2, disk, disk0, pc, file_list, dup_groups, rep1_files,
          rep2_files, duplicates, confirmation, rep1_by_name, i, log, written>>

(***************************************************************************)
(* Bounds of the model.                                                    *)
(***************************************************************************)
MaxFiles == 3       \* most files present on the modelled disk
MaxTime == 3        \* modification times range over 1..MaxTime
MaxList == 4        \* longest list handed to find_duplicates
MaxRef == 2         \* longest reference list handed to find_duplicates_in_rep2
MaxCand == 3        \* longest candidate list handed to find_duplicates_in_rep2

(***************************************************************************)
(* The modelled filesystem.  A path is <<directory, name>>; "As" is the    *)
(* subdirectory s of "A" and "Bs" the subdirectory s of "B".               *)
(***************************************************************************)
Dirs == {"A", "As", "B", "Bs"}
Names == {"n1", "n2"}
Paths == Dirs \X Names

\* os.walk is top-down: the files of a directory come before those of its
\* subdirectories.  Names are unique inside a directory, so two files with
\* the same name are always ordered by this rule.
WalkOrder == << <<"A", "n1">>, <<"A", "n2">>, <<"As", "n1">>, <<"As", "n2">>,
                <<"B", "n1">>, <<"B", "n2">>, <<"Bs", "n1">>, <<"Bs", "n2">> >>

Under(root, dir) ==
    \/ dir = root
    \/ root = "A" /\ dir = "As"
    \/ root = "B" /\ dir = "Bs"

Contents == {<<97>>, <<98>>}

NoFile == [exists |-> FALSE, content |-> <<>>, mtime |-> 0, readable |-> FALSE]

Entries(times, perms) ==
    [exists : {TRUE}, content : Contents, mtime : times, readable : perms]

\* os.path.basename / os.path.join on modelled paths
basename(path) == path[2]
join(dir, name) == <<dir, name>>

(***************************************************************************)
(* class File                                                              *)
(***************************************************************************)
HexDigit == <<"0", "1", "2", "3", "4", "5", "6", "7",
              "8", "9", "a", "b", "c", "d", "e", "f">>

\* bytes.hex()
RECURSIVE hex(_)
hex(bytes) ==
    IF bytes = <<>> THEN ""
    ELSE HexDigit[(Head(bytes) \div 16) + 1] \o HexDigit[(Head(bytes) % 16) + 1]
         \o hex(Tail(bytes))

\* f.read(5)
read5(content) == SubSeq(content, 1, IF Len(content) < 5 THEN Len(content) ELSE 5)

get_first_bytes(entry) ==
    IF entry.readable THEN hex(read5(entry.content)) ELSE "0000000000"

\* hashlib.md5 is modelled as an injective, never-empty digest of the content.
hexdigest(content) == "md5:" \o hex(content)

calculate_md5(entry) ==
    IF entry.readable THEN hexdigest(entry.content) ELSE ""

File(path, entry) ==
    [path |-> path,
     name |-> basename(path),
     size |-> Len(entry.content),
     first_bytes |-> get_first_bytes(entry),
     last_modified |-> entry.mtime,
     md5 |-> calculate_md5(entry)]

(***************************************************************************)
(* get_all_files                                                           *)
(***************************************************************************)
get_all_files(root, d) ==
    LET found == SelectSeq(WalkOrder, LAMBDA p : Under(root, p[1]) /\ d[p].exists)
    IN  [k \in DOMAIN found |-> File(found[k], d[found[k]])]

(***************************************************************************)
(* Python dict helpers: a defaultdict(list) filled in one pass is the      *)
(* sequence of its (key, list) items in insertion order.                   *)
(***************************************************************************)
RECURSIVE Ascending(_)
Ascending(S) ==
    IF S = {} THEN <<>>
    ELSE LET m == CHOOSE x \in S : \A y \in S : x <= y
         IN  <<m>> \o Ascending(S \ {m})

\* keys[k] is the key under which files[k] is appended
group_by(files, keys) ==
    LET firsts == Ascending({k \in DOMAIN files :
                                \A j \in 1..(k - 1) : keys[j] # keys[k]})
        bucket(key) == Ascending({k \in DOMAIN files : keys[k] = key})
    IN  [n \in DOMAIN firsts |->
            [key |-> keys[firsts[n]],
             files |-> [m \in DOMAIN bucket(keys[firsts[n]]) |->
                          files[bucket(keys[firsts[n]])[m]]]]]

RECURSIVE Concat(_)
Concat(ss) == IF ss = <<>> THEN <<>> ELSE Head(ss) \o Concat(Tail(ss))

(***************************************************************************)
(* find_duplicates                                                         *)
(***************************************************************************)
md5_groups(fb_files) ==
    LET md5_dict == group_by(fb_files, [k \in DOMAIN fb_files |-> fb_files[k].md5])
    IN  Concat([n \in DOMAIN md5_dict |->
                  IF Len(md5_dict[n].files) > 1 THEN <<md5_dict[n].files>> ELSE <<>>])

first_bytes_groups(files) ==
    LET first_bytes_dict == group_by(files, [k \in DOMAIN files |-> files[k].first_bytes])
    IN  Concat([n \in DOMAIN first_bytes_dict |->
                  IF Len(first_bytes_dict[n].files) > 1
                  THEN md5_groups(first_bytes_dict[n].files) ELSE <<>>])

find_duplicates(files) ==
    LET size_dict == group_by(files, [k \in DOMAIN files |-> files[k].size])
    IN  Concat([n \in DOMAIN size_dict |->
                  IF Len(size_dict[n].files) > 1
                  THEN first_bytes_groups(size_dict[n].files) ELSE <<>>])

(***************************************************************************)
(* find_duplicates_in_rep2                                                 *)
(***************************************************************************)
\* the inner for loop with its break: does the bucket hold a matching md5?
bucket_matches(bucket, rep2_file) ==
    \E k \in DOMAIN bucket : rep2_file.md5 = bucket[k].md5

find_duplicates_in_rep2(r1, r2) ==
    LET rep1_size_dict == group_by(r1, [k \in DOMAIN r1 |-> r1[k].size])
        in_dict(size) == \E n \in DOMAIN rep1_size_dict : rep1_size_dict[n].key = size
        bucket(size) ==
            rep1_size_dict[CHOOSE n \in DOMAIN rep1_size_dict :
                              rep1_size_dict[n].key = size].files
    IN  SelectSeq(r2, LAMBDA f : in_dict(f.size) /\ bucket_matches(bucket(f.size), f))

(***************************************************************************)
(* Initial states: the command line and the filesystem.                    *)
(***************************************************************************)
NoList == <<>>
NoAnswer == <<"<", "n", "o", "t", " ", "a", "s", "k", "e", "d", ">">>

\* every filesystem holding at most MaxFiles files, all of them in the trees
\* named on the command line (the program touches no other)
Disks(roots, times, perms) ==
    LET inside == {p \in Paths : \E root \in roots : Under(root, p[1])}
    IN  { [p \in Paths |-> IF p \in S THEN f[p] ELSE NoFile] :
            <<S, f>> \in UNION { {S} \X [S -> Entries(times, perms)] :
                         S \in {T \in SUBSET inside : Cardinality(T) <= MaxFiles} } }

InitCommon ==
    /\ disk0 = disk
    /\ pc = "main"
    /\ dup_groups = NoList
    /\ duplicates = NoList
    /\ confirmation = NoAnswer
    /\ rep1_by_name = <<>>
    /\ i = 1
    /\ log = <<>>
    /\ written = <<>>

(***************************************************************************)
(* delete_duplicates_in_rep2_with_confirmation                             *)
(***************************************************************************)
Whitespace == {" ", "\t", "\n"}

\* str.strip()
RECURSIVE lstrip(_)
lstrip(s) == IF s # <<>> /\ Head(s) \in Whitespace THEN lstrip(Tail(s)) ELSE s

RECURSIVE rstrip(_)
rstrip(s) ==
    IF s # <<>> /\ s[Len(s)] \in Whitespace THEN rstrip(SubSeq(s, 1, Len(s) - 1)) ELSE s

strip(s) == rstrip(lstrip(s))

\* str.lower()
lower_char(c) ==
    CASE c = "O" -> "o" [] c = "U" -> "u" [] c = "I" -> "i" [] c = "N" -> "n"
      [] OTHER -> c

lower(s) == [k \in DOMAIN s |-> lower_char(s[k])]

\* line 140, taking every answer but 'non' for a yes
confirmed_loose(answer) == lower(strip(answer)) # <<"n", "o", "n">>

\* lines 139-140: input(...).strip().lower() == 'oui'
confirmed(answer) == lower(strip(answer)) = <<"o", "u", "i">>

\* what the operator may type
Answers == { <<"o", "u", "i">>, <<" ", "O", "U", "I", " ">>, <<"O", "u", "i", "\t">>,
             <<"n", "o", "n">>, <<"N", "O", "N">>, <<>>, <<"o">>,
             <<"o", "u", "i", "!">>, <<"o", " ", "u", "i">> }

DeleteArgs == { <<"A", "B">>, <<"A", "A">>, <<"A", "As">>, <<"A", "">>, <<"", "">> }

InitDelete ==
    /\ mode = "delete_duplicates"
    /\ \E args \in DeleteArgs : directory = args[1] /\ rep2 = args[2]
    /\ disk \in Disks({directory, rep2}, {1}, BOOLEAN)
    /\ InitCommon
    /\ file_list = NoList
    /\ rep1_files = NoList
    /\ rep2_files = NoList

\* main, lines 196-199: a missing path prints the usage and returns
MainDeleteUsage ==
    /\ pc = "main"
    /\ mode = "delete_duplicates"
    /\ (directory = "" \/ rep2 = "")
    /\ pc' = "done"
    /\ UNCHANGED <<mode, directory, rep2, disk, disk0, file_list, dup_groups,
                   rep1_files, rep2_files, duplicates, confirmation,
                   rep1_by_name, i, log, written>>

\* main, lines 200-203, and lines 130-133 of the function: the two scans, the
\* comparison, and the early return when nothing matched
MainDelete ==
    /\ pc = "main"
    /\ mode = "delete_duplicates"
    /\ ~(directory = "" \/ rep2 = "")
    /\ LET r1 == get_all_files(directory, disk)
           r2 == get_all_files(rep2, disk)
           dups == find_duplicates_in_rep2(r1, r2)
       IN  /\ rep1_files' = r1
           /\ rep2_files' = r2
           /\ duplicates' = dups
           /\ pc' = IF dups = <<>> THEN "done" ELSE "confirm"
    /\ UNCHANGED <<mode, directory, rep2, disk, disk0, file_list, dup_groups,
                   confirmation, rep1_by_name, i, log, written>>

\* lines 139-140 and 147-148: the prompt
DeleteConfirm ==
    /\ pc = "confirm"
    /\ \E answer \in Answers :
          /\ confirmation' = answer
          /\ pc' = IF confirmed(answer) THEN "remove" ELSE "done"
    /\ i' = 1
    /\ UNCHANGED <<mode, directory, rep2, disk, disk0, file_list, dup_groups,
                   rep1_files, rep2_files, duplicates, rep1_by_name, log, written>>

\* lines 141-144: one iteration whose os.remove succeeds
DeleteRemoveOk ==
    /\ pc = "remove"
    /\ i <= Len(duplicates)
    /\ disk[duplicates[i].path].exists
    /\ disk' = [disk EXCEPT ![duplicates[i].path] = NoFile]
    /\ log' = Append(log, [file |-> duplicates[i].path, msg |-> "supprime"])
    /\ i' = i + 1
    /\ pc' = IF i + 1 > Len(duplicates) THEN "done" ELSE "remove"
    /\ UNCHANGED <<mode, directory, rep2, disk0, file_list, dup_groups, rep1_files,
                   rep2_files, duplicates, confirmation, rep1_by_name, written>>

\* lines 141-146: one iteration whose os.remove raises; the except clause
\* prints the error and the loop goes on
DeleteRemoveError ==
    /\ pc = "remove"
    /\ i <= Len(duplicates)
    /\ log' = Append(log, [file |-> duplicates[i].path, msg |-> "erreur"])
    /\ i' = i + 1
    /\ pc' = IF i + 1 > Len(duplicates) THEN "done" ELSE "remove"
    /\ UNCHANGED <<mode, directory, rep2, disk, disk0, file_list, dup_groups,
                   rep1_files, rep2_files, duplicates, confirmation,
                   rep1_by_name, written>>

NextDelete ==
    \/ MainDeleteUsage
    \/ MainDelete
    \/ DeleteConfirm
    \/ DeleteRemoveOk
    \/ DeleteRemoveError

SpecDelete == InitDelete /\ [][NextDelete]_vars

(***************************************************************************)
(* rapatriate_files                                                        *)
(***************************************************************************)
\* {file.name: file for file in get_all_files(rep1)}: a later file with the
\* same name replaces the earlier one
dict_by_name(files) ==
    [n \in {files[k].name : k \in DOMAIN files} |->
        files[CHOOSE k \in DOMAIN files :
                 /\ files[k].name = n
                 /\ \A j \in DOMAIN files : files[j].name = n => j <= k]]

\* line 170, with the comparison weakened
is_newer_or_same(rep2_file, rep1_file) ==
    rep2_file.last_modified >= rep1_file.last_modified

\* line 170
is_newer(rep2_file, rep1_file) == rep2_file.last_modified > rep1_file.last_modified

\* shutil.copy2 can succeed only from an existing, readable source to another
\* path (SameFileError otherwise); it may fail in any case
copy2_possible(src, dst, d) == d[src].exists /\ d[src].readable /\ src # dst

\* the destination after shutil.copy2: content, mode and mtime of the source
copy2(src, dst, d) == [d EXCEPT ![dst] = d[src]]

RapatArgs == { <<"A", "B">>, <<"A", "A">>, <<"A", "">>, <<"", "">> }

InitRapat ==
    /\ mode = "rapatriate"
    /\ \E args \in RapatArgs : directory = args[1] /\ rep2 = args[2]
    /\ disk \in Disks({directory, rep2}, 1..MaxTime, {TRUE})
    /\ InitCommon
    /\ file_list = NoList
    /\ rep1_files = NoList
    /\ rep2_files = NoList

\* main, lines 190-193
MainRapatUsage ==
    /\ pc = "main"
    /\ mode = "rapatriate"
    /\ (directory = "" \/ rep2 = "")
    /\ pc' = "done"
    /\ UNCHANGED <<mode, directory, rep2, disk, disk0, file_list, dup_groups,
                   rep1_files, rep2_files, duplicates, confirmation,
                   rep1_by_name, i, log, written>>

\* main, lines 194-195, and lines 154-156 of the function
MainRapat ==
    /\ pc = "main"
    /\ mode = "rapatriate"
    /\ ~(directory = "" \/ rep2 = "")
    /\ LET r1 == get_all_files(directory, disk)
           r2 == get_all_files(rep2, disk)
       IN  /\ rep1_files' = r1
           /\ rep1_by_name' = dict_by_name(r1)
           /\ rep2_files' = r2
           /\ pc' = IF r2 = <<>> THEN "done" ELSE "rapat"
    /\ i' = 1
    /\ UNCHANGED <<mode, directory, rep2, disk, disk0, file_list, dup_groups,
                   duplicates, confirmation, log, written>>

\* the copy of lines 165 and 171, when it succeeds
RapatWrite(rep2_file, msg) ==
    LET dest_path == join(directory, rep2_file.name)
    IN  /\ copy2_possible(rep2_file.path, dest_path, disk)
        /\ disk' = copy2(rep2_file.path, dest_path, disk)
        /\ written' = Append(written, [dest |-> dest_path, src |-> rep2_file.path,
                                       msg |-> msg, old |-> disk[dest_path],
                                       new |-> disk[rep2_file.path]])
        /\ log' = Append(log, [file |-> rep2_file.path, msg |-> msg])
        /\ i' = i + 1
        /\ pc' = IF i + 1 > Len(rep2_files) THEN "done" ELSE "rapat"

\* lines 163-166: the name is absent from rep1
RapatCopy ==
    /\ pc = "rapat"
    /\ i <= Len(rep2_files)
    /\ rep2_files[i].name \notin DOMAIN rep1_by_name
    /\ RapatWrite(rep2_files[i], "copie")
    /\ UNCHANGED <<mode, directory, rep2, disk0, file_list, dup_groups, rep1_files,
                   rep2_files, duplicates, confirmation, rep1_by_name>>

\* lines 167-172: the name is present and the candidate is newer
RapatUpdate ==
    /\ pc = "rapat"
    /\ i <= Len(rep2_files)
    /\ rep2_files[i].name \in DOMAIN rep1_by_name
    /\ is_newer(rep2_files[i], rep1_by_name[rep2_files[i].name])
    /\ RapatWrite(rep2_files[i], "mis a jour")
    /\ UNCHANGED <<mode, directory, rep2, disk0, file_list, dup_groups, rep1_files,
                   rep2_files, duplicates, confirmation, rep1_by_name>>

\* lines 167-174: the name is present and the candidate is not newer
RapatSkip ==
    /\ pc = "rapat"
    /\ i <= Len(rep2_files)
    /\ rep2_files[i].name \in DOMAIN rep1_by_name
    /\ ~is_newer(rep2_files[i], rep1_by_name[rep2_files[i].name])
    /\ log' = Append(log, [file |-> rep2_files[i].path, msg |-> "ignore"])
    /\ i' = i + 1
    /\ pc' = IF i + 1 > Len(rep2_files) THEN "done" ELSE "rapat"
    /\ UNCHANGED <<mode, directory, rep2, disk, disk0, file_list, dup_groups,
                   rep1_files, rep2_files, duplicates, confirmation,
                   rep1_by_name, written>>

\* lines 165 and 171 when shutil.copy2 raises: no handler encloses the call,
\* so the exception leaves rapatriate_files and main
RapatCopyRaises ==
    /\ pc = "rapat"
    /\ i <= Len(rep2_files)
    /\ \/ rep2_files[i].name \notin DOMAIN rep1_by_name
       \/ /\ rep2_files[i].name \in DOMAIN rep1_by_name
          /\ is_newer(rep2_files[i], rep1_by_name[rep2_files[i].name])
    /\ pc' = "crashed"
    /\ UNCHANGED <<mode, directory, rep2, disk, disk0, file_list, dup_groups,
                   rep1_files, rep2_files, duplicates, confirmation,
                   rep1_by_name, i, log, written>>

NextRapat ==
    \/ MainRapatUsage
    \/ MainRapat
    \/ RapatCopy
    \/ RapatUpdate
    \/ RapatSkip
    \/ RapatCopyRaises

SpecRapat == InitRapat /\ [][NextRapat]_vars

(***************************************************************************)
(* The two pure functions on arbitrary lists of File objects.  The k-th    *)
(* object of a list has its own path; size, first_bytes and md5 range      *)
(* freely, the read-failure values "0000000000" and "" included.           *)
(***************************************************************************)
SizeValues == {0, 1}
FirstBytesValues == {"61", "0000000000"}
Md5Values == {"", "md5:61", "md5:62"}

FileAt(dir, k, size, first_bytes, md5) ==
    [path |-> <<dir, "f" \o ToString(k)>>,
     name |-> "f" \o ToString(k),
     size |-> size,
     first_bytes |-> first_bytes,
     last_modified |-> 1,
     md5 |-> md5]

FileLists(dir, maxlen, fbs) ==
    UNION { { [k \in 1..n |-> FileAt(dir, k, a[k][1], a[k][2], a[k][3])] :
                a \in [1..n -> SizeValues \X fbs \X Md5Values] } : n \in 0..maxlen }

InitGroup ==
    /\ mode = "duplicates"
    /\ directory = "A"
    /\ rep2 = ""
    /\ disk = [p \in Paths |-> NoFile]
    /\ InitCommon
    /\ file_list \in FileLists("A", MaxList, FirstBytesValues)
    /\ rep1_files = NoList
    /\ rep2_files = NoList

\* main, lines 226-227: the call of find_duplicates
CallFindDuplicates ==
    /\ pc = "main"
    /\ mode = "duplicates"
    /\ dup_groups' = find_duplicates(file_list)
    /\ pc' = "done"
    /\ UNCHANGED <<mode, directory, rep2, disk, disk0, file_list, rep1_files,
                   rep2_files, duplicates, confirmation, rep1_by_name, i, log,
                   written>>

NextGroup == CallFindDuplicates

SpecGroup == InitGroup /\ [][NextGroup]_vars

InitCompare ==
    /\ mode = "compare_rep"
    /\ directory = "A"
    /\ rep2 = "B"
    /\ disk = [p \in Paths |-> NoFile]
    /\ InitCommon
    /\ file_list = NoList
    /\ rep1_files \in FileLists("A", MaxRef, {"61"})
    /\ rep2_files \in FileLists("B", MaxCand, {"61"})

\* main, line 211: the call of find_duplicates_in_rep2
CallFindDuplicatesInRep2 ==
    /\ pc = "main"
    /\ mode = "compare_rep"
    /\ duplicates' = find_duplicates_in_rep2(rep1_files, rep2_files)
    /\ pc' = "done"
    /\ UNCHANGED <<mode, directory, rep2, disk, disk0, file_list, dup_groups,
                   rep1_files, rep2_files, confirmation, rep1_by_name, i, log,
                   written>>

NextCompare == CallFindDuplicatesInRep2

SpecCompare == InitCompare /\ [][NextCompare]_vars

(***************************************************************************)
(* Properties of the duplicate grouper (SpecGroup).                        *)
(***************************************************************************)
Range(s) == {s[k] : k \in DOMAIN s}

InSameGroup(f, g) ==
    \E n \in DOMAIN dup_groups : f \in Range(dup_groups[n]) /\ g \in Range(dup_groups[n])

InSomeGroup(f) == \E n \in DOMAIN dup_groups : f \in Range(dup_groups[n])

\* content identity of two File objects: equal digests, neither of them empty
ContentIdentical(f, g) == f.md5 = g.md5 /\ f.md5 # "" /\ g.md5 # ""

\* C1: two distinct records of the input are in the same emitted group if and
\* only if they have equal size and equal, non-empty content digests, whatever
\* their prefix digests are.
C1_SameGroupIffSameContent ==
    pc = "done" =>
        \A a, b \in DOMAIN file_list :
            a # b =>
                (InSameGroup(file_list[a], file_list[b])
                    <=> /\ file_list[a].size = file_list[b].size
                        /\ ContentIdentical(file_list[a], file_list[b]))

\* C3: no emitted group holds a record whose content digest is the empty
\* string.
C3_NoEmptyDigestInGroup ==
    pc = "done" =>
        \A n \in DOMAIN dup_groups :
            \A k \in DOMAIN dup_groups[n] : dup_groups[n][k].md5 # ""

\* every emitted group has at least two members
GroupsHaveTwoMembers ==
    \A n \in DOMAIN dup_groups : Len(dup_groups[n]) >= 2

\* every input record has at most one place in the emitted groups
GroupsAreDisjoint ==
    \A f \in Range(file_list) :
        Cardinality({ <<n, k>> \in (DOMAIN dup_groups) \X (1..Len(file_list)) :
                        k \in DOMAIN dup_groups[n] /\ dup_groups[n][k] = f }) <= 1

\* C4: every emitted group has at least two members, every input record has
\* at most one place in the emitted groups, and a record that is
\* content-identical to no other record of the input is in no group.
C4_GroupsAreDisjointClasses ==
    pc = "done" =>
        /\ GroupsHaveTwoMembers
        /\ GroupsAreDisjoint
        /\ \A a \in DOMAIN file_list :
              (\A b \in DOMAIN file_list :
                  b # a => ~ContentIdentical(file_list[a], file_list[b]))
                  => ~InSomeGroup(file_list[a])

(***************************************************************************)
(* Properties of the cross-set comparator (SpecCompare).                   *)
(***************************************************************************)
\* C2: the result is the candidate list, in order, restricted to the
\* candidates for which some reference member has equal size and an equal,
\* non-empty content digest.
C2_ResultIsMatchingCandidates ==
    pc = "done" =>
        duplicates =
            SelectSeq(rep2_files,
                      LAMBDA c : \E r \in Range(rep1_files) :
                                    r.size = c.size /\ ContentIdentical(r, c))

(***************************************************************************)
(* Properties of the confirmed deletion (SpecDelete).                      *)
(***************************************************************************)
\* the typed answers that read 'oui' once stripped and lower-cased
AffirmativeAnswers ==
    { <<"o", "u", "i">>, <<" ", "O", "U", "I", " ">>, <<"O", "u", "i", "\t">> }

Removed == {p \in Paths : disk0[p].exists /\ ~disk[p].exists}

\* C6: the filesystem changes only after an affirmative answer; with any
\* other answer, or with an empty comparator result, it is unchanged; and the
\* only change is the removal of files of the comparator's result.
C6_DeletionOnlyWhenConfirmed ==
    /\ disk # disk0 => confirmation \in AffirmativeAnswers
    /\ duplicates = <<>> => disk = disk0
    /\ \A p \in Paths :
          disk[p] # disk0[p] =>
              /\ p \in Removed
              /\ \E f \in Range(find_duplicates_in_rep2(
                                   get_all_files(directory, disk0),
                                   get_all_files(rep2, disk0))) : f.path = p

\* a confirmed run that removed a file, and whose second removal failed
C6_Witness ==
    /\ pc = "done"
    /\ confirmation = <<" ", "O", "U", "I", " ">>
    /\ Removed # {}
    /\ \E k \in DOMAIN log : log[k].msg = "erreur"

\* C9: after a confirmed run, for every removed file there is still, in the
\* reference tree, a file with the same size and the same content digest.
C9_DeletionKeepsACopy ==
    pc = "done" =>
        \A p \in Removed :
            \E q \in Paths :
                /\ disk[q].exists
                /\ Under(directory, q[1])
                /\ File(q, disk[q]).size = File(p, disk0[p]).size
                /\ File(q, disk[q]).md5 = File(p, disk0[p]).md5

(***************************************************************************)
(* Properties of the reconciler (SpecRapat).                               *)
(***************************************************************************)
\* the reference files that have the name of candidate c
SameName(c) == {r \in Range(rep1_files) : r.name = c.name}

\* the copies that were carried out are those of the candidates whose
\* message is not "ignore", in order, each to rep1/<name>
WritesFollowLog ==
    LET acted == SelectSeq(log, LAMBDA e : e.msg # "ignore")
    IN  /\ Len(written) = Len(acted)
        /\ \A k \in DOMAIN written :
              /\ written[k].src = acted[k].file
              /\ written[k].dest = join(directory, basename(acted[k].file))

\* C5, as stated: a candidate whose name no reference file has is copied; a
\* candidate strictly later than a reference file of its name overwrites; a
\* candidate earlier than or as old as a reference file of its name writes
\* nothing.
C5_OutcomeByNameAndTime ==
    /\ WritesFollowLog
    /\ \A k \in DOMAIN log :
          LET c == rep2_files[k]
          IN  /\ log[k].file = c.path
              /\ SameName(c) = {} => log[k].msg = "copie"
              /\ \A r \in SameName(c) :
                    /\ c.last_modified > r.last_modified => log[k].msg = "mis a jour"
                    /\ c.last_modified <= r.last_modified => log[k].msg = "ignore"

\* the reference file the comparison is made with: the last one of that name
\* in traversal order
LastSameName(c) ==
    rep1_files[CHOOSE a \in DOMAIN rep1_files :
                  /\ rep1_files[a].name = c.name
                  /\ \A b \in DOMAIN rep1_files : rep1_files[b].name = c.name => b <= a]

Expected(c) ==
    IF SameName(c) = {} THEN "copie"
    ELSE IF c.last_modified > LastSameName(c).last_modified THEN "mis a jour"
    ELSE "ignore"

\* C5, amended: the comparison is made with the last reference file of that
\* name in traversal order; a run that ends in an exception ends on a
\* candidate that had to be copied.
C5_OutcomeByNameAndLastReference ==
    /\ WritesFollowLog
    /\ \A k \in DOMAIN log :
          log[k].file = rep2_files[k].path /\ log[k].msg = Expected(rep2_files[k])
    /\ pc = "crashed" => Expected(rep2_files[i]) # "ignore"

\* a finished run in which a candidate as old as its reference file was
\* skipped, another overwrote, and a third was copied as new
C5_Witness ==
    /\ pc = "done"
    /\ \E k \in DOMAIN log :
          /\ log[k].msg = "ignore"
          /\ rep2_files[k].last_modified = LastSameName(rep2_files[k]).last_modified
    /\ \E k \in DOMAIN log : log[k].msg = "mis a jour"

\* C7: a write failure on one file does not end the run: the files that
\* follow the failing one in the sequence are processed.
C7_FailureDoesNotAbort ==
    pc = "crashed" => i >= Len(rep2_files)

\* C8: an overwrite lands on the location of a reference file that has the
\* candidate's name.
C8_OverwriteAtReferenceLocation ==
    \A k \in DOMAIN written :
        written[k].msg = "mis a jour" =>
            \E r \in Range(rep1_files) :
                r.name = basename(written[k].src) /\ r.path = written[k].dest

\* C10: a file at a destination path is only ever replaced by a file with a
\* strictly later modification time.
C10_DestinationTimeIncreases ==
    \A k \in DOMAIN written :
        written[k].old.exists => written[k].new.mtime > written[k].old.mtime

====
